---- MODULE Spec2Model ----
(* Model of paper_scraper.py: one run of main() after another over a        *)
(* persisted state file (downloaded_papers.json).                            *)
(*                                                                           *)
(* A pdf_url is a sequence of one-character strings, so that the version     *)
(* is parsed out of it as the code parses it.  Time is an integer count of   *)
(* days; the clock `now` only moves forward, and a run is short against a   *)
(* day: every datetime.now() of one run reads the same value.               *)
EXTENDS Integers, Sequences, FiniteSets, TLC

VARIABLES
    file,                    \* content of downloaded_papers.json
    now,                     \* the wall clock (datetime.now)
    pc,                      \* position of main()
    cat,                     \* index of the category the loop is about to process
    downloaded,              \* main: downloaded
    skipped,                 \* this run has refused a record as not new (a `continue`)
    outcome,                 \* per category: what its loop body did
    candidate_updated,       \* main: candidate_updated
    candidate_published,     \* main: candidate_published
    all_papers_by_updated,   \* main: all_papers_by_updated
    all_papers_by_published, \* main: all_papers_by_published
    new_count,               \* main: new_count
    printed,                 \* pdf_urls written to the console by print_papers
    mail,                    \* what the email step of this run did
    emailed                  \* pdf_urls of the digest handed to the SMTP server in this run

vars == <<file, now, pc, cat, downloaded, skipped, outcome, candidate_updated,
          candidate_published, all_papers_by_updated, all_papers_by_published,
          new_count, printed, mail, emailed>>

-----------------------------------------------------------------------------
(* Bounds of the model *)

\* longest result list one search returns (the code asks for at most 50)
MaxResults == 2
\* last value of the clock
MaxNow == 181
\* largest min_version the updated filter is evaluated with
MaxMinVersion == 3

-----------------------------------------------------------------------------
(* Program constants *)

\* days=180 of both filters as called from main
Days == 180
\* min_version=2 of filter_recent_by_updated as called from main
MinVersion == 2
\* the slice [:2] of main
Cap == 2
\* CATEGORIES / the loop list ["AI", "Security"], by position
Categories == <<"AI", "Security">>
NumCategories == Len(Categories)

-----------------------------------------------------------------------------
(* get_version_from_pdf_url: re.search(r"v(\d+)", pdf_url) *)

Digits == <<"0", "1", "2", "3", "4", "5", "6", "7", "8", "9">>

IsDigit(c) == \E i \in 1..Len(Digits) : Digits[i] = c

DigitVal(c) == (CHOOSE i \in 1..Len(Digits) : Digits[i] = c) - 1

\* int(match.group(1)): the greedy run of digits starting at position i
RECURSIVE DigitRun(_, _, _)
DigitRun(url, i, acc) ==
    IF i <= Len(url) /\ IsDigit(url[i])
    THEN DigitRun(url, i + 1, acc * 10 + DigitVal(url[i]))
    ELSE acc

\* leftmost position of a "v" that is followed by a digit, 0 if there is none
RECURSIVE MatchStart(_, _)
MatchStart(url, i) ==
    IF i >= Len(url) THEN 0
    ELSE IF url[i] = "v" /\ IsDigit(url[i + 1]) THEN i
    ELSE MatchStart(url, i + 1)

get_version_from_pdf_url(pdf_url) ==
    IF pdf_url = <<>> THEN 1
    ELSE LET m == MatchStart(pdf_url, 1)
         IN  IF m > 0 THEN DigitRun(pdf_url, m + 1, 0) ELSE 1

-----------------------------------------------------------------------------
(* The index the search adapter queries: a paper is named by its pdf_url.   *)

Paper(t, u, p, d) == [title |-> t, pdf_url |-> u, published |-> p, updated |-> d]

Index ==
    { Paper("T1", <<"a", "v", "2">>, 1, 3),
      Paper("T1", <<"b", "v", "1">>, 0, 0),
      Paper("T2", <<"v", "c", "v", "3">>, -1, 0),
      Paper("T3", <<"d", "v", "1", "0">>, 2, 3),
      Paper("T2", <<"e">>, 1, 1),
      Paper("T4", <<"f", "v", "1">>, 1, 1) }

Urls == { p.pdf_url : p \in Index }

\* get_paper_info: the record main works with (fields the pipeline reads)
get_paper_info(paper) ==
    [title     |-> paper.title,
     published |-> paper.published,
     updated   |-> paper.updated,
     version   |-> get_version_from_pdf_url(paper.pdf_url),
     pdf_url   |-> paper.pdf_url]

Range(s) == { s[i] : i \in 1..Len(s) }

IsInjective(s) == \A i, j \in 1..Len(s) : s[i] = s[j] => i = j

\* search_papers: a list of distinct results, sorted by LastUpdatedDate,
\* latest first (ties in any order)
SearchResults ==
    { s \in UNION { [1..n -> Index] : n \in 0..MaxResults } :
        /\ IsInjective(s)
        /\ \A i \in 1..(Len(s) - 1) : s[i].updated >= s[i + 1].updated }

-----------------------------------------------------------------------------
(* Values of `downloaded` and contents of the state file.                   *)
(* kind "dict": map holds the keys with an integer value, bad the keys      *)
(* whose value is not a number (a string, null, a list).                    *)
(* kind "list": items holds the strings of the list.                        *)
(* kind "number": a JSON number.  "missing" / "garbage" are file contents   *)
(* only: no file, and a file json.load cannot parse.                        *)

EmptyMap == [u \in {} |-> 0]

Value(k, m, b, i) == [kind |-> k, map |-> m, bad |-> b, items |-> i]

Dict(m, b) == Value("dict", m, b, {})

EmptyDict == Dict(EmptyMap, {})

\* json.load(f) inside load_downloaded_papers; "garbage" raises and the
\* except branch returns {}
load_downloaded_papers(f) ==
    IF f.kind \in {"missing", "garbage"} THEN EmptyDict
    ELSE Value(f.kind, f.map, f.bad, f.items)

\* json.dump(downloaded, f): writes whatever value it is given
save_downloaded_papers(d) == Value(d.kind, d.map, d.bad, d.items)

\* `pdf_url not in downloaded` raises TypeError on a number
ContainsRaises(d) == d.kind = "number"

\* `pdf_url in downloaded` on a dict (keys) or a list (elements)
Contains(d, pdf_url) ==
    CASE d.kind = "dict" -> pdf_url \in (DOMAIN d.map) \cup d.bad
      [] d.kind = "list" -> pdf_url \in d.items
      [] OTHER -> FALSE

\* is_new_version raises TypeError: membership test on a number, a string
\* index into a list, or `int > str`
is_new_version_raises(pdf_url, current_version, d) ==
    \/ ContainsRaises(d)
    \/ /\ Contains(d, pdf_url)
       /\ \/ d.kind = "list"
          \/ d.kind = "dict" /\ pdf_url \in d.bad

\* is_new_version with >= for > : the stored revision counts as new again
is_new_version_ge(pdf_url, current_version, d) ==
    IF ~Contains(d, pdf_url) THEN TRUE
    ELSE current_version >= d.map[pdf_url]

\* is_new_version without the comparison: every record is new
is_new_version_always(pdf_url, current_version, d) == TRUE

\* is_new_version, where it does not raise
is_new_version(pdf_url, current_version, d) ==
    IF ~Contains(d, pdf_url) THEN TRUE
    ELSE current_version > d.map[pdf_url]

-----------------------------------------------------------------------------
(* The recency filters; t is the value datetime.now() returns in the call   *)

\* filter_recent_by_published with > for >= : the bound itself is outside
filter_recent_by_published_gt(ps, days, t) ==
    LET date_limit == t - days
        Keep(paper) == paper.published > date_limit
    IN  SelectSeq(ps, Keep)

filter_recent_by_published(ps, days, t) ==
    LET date_limit == t - days
        Keep(paper) == paper.published >= date_limit
    IN  SelectSeq(ps, Keep)

\* filter_recent_by_updated without the version test
filter_recent_by_updated_any(ps, days, min_version, t) ==
    LET date_limit == t - days
        Keep(paper) == paper.updated >= date_limit
    IN  SelectSeq(ps, Keep)

filter_recent_by_updated(ps, days, min_version, t) ==
    LET date_limit == t - days
        Keep(paper) ==
            /\ paper.updated >= date_limit
            /\ get_version_from_pdf_url(paper.pdf_url) >= min_version
    IN  SelectSeq(ps, Keep)

-----------------------------------------------------------------------------
(* The body of the category loop of main, after the search                  *)

\* the loop over recent_updated: a TypeError of is_new_version ends it and
\* leaves what was appended so far
RECURSIVE ResolveUpdated(_, _, _, _, _, _)
ResolveUpdated(recent_updated, i, d, cands, titles, skip) ==
    IF i > Len(recent_updated)
    THEN [cands |-> cands, titles |-> titles, skip |-> skip, raised |-> FALSE]
    ELSE LET info == get_paper_info(recent_updated[i])
         IN  IF is_new_version_raises(info.pdf_url, info.version, d)
             THEN [cands |-> cands, titles |-> titles, skip |-> skip, raised |-> TRUE]
             ELSE IF ~is_new_version(info.pdf_url, info.version, d)
             THEN ResolveUpdated(recent_updated, i + 1, d, cands, titles,
                                 TRUE)
             ELSE ResolveUpdated(recent_updated, i + 1, d,
                                 Append(cands, info), titles \cup {info.title}, skip)

\* the loop over recent_published
RECURSIVE ResolvePublished(_, _, _, _, _, _)
ResolvePublished(recent_published, i, d, cands, updated_titles, skip) ==
    IF i > Len(recent_published)
    THEN [cands |-> cands, skip |-> skip, raised |-> FALSE]
    ELSE LET info == get_paper_info(recent_published[i])
         IN  IF info.title \in updated_titles
             THEN ResolvePublished(recent_published, i + 1, d, cands,
                                   updated_titles, skip)
             ELSE IF is_new_version_raises(info.pdf_url, info.version, d)
             THEN [cands |-> cands, skip |-> skip, raised |-> TRUE]
             ELSE IF ~is_new_version(info.pdf_url, info.version, d)
             THEN ResolvePublished(recent_published, i + 1, d, cands,
                                   updated_titles, TRUE)
             ELSE ResolvePublished(recent_published, i + 1, d,
                                   Append(cands, info), updated_titles, skip)

\* lines 297-313 for one search result: t1 and t2 are the clock readings of
\* the two filters; updated_titles starts empty in every category
ResolveCategory(ps, d, cu, cp, skip, t1, t2) ==
    LET recent_published == filter_recent_by_published(ps, Days, t1)
        recent_updated   == filter_recent_by_updated(ps, Days, MinVersion, t2)
        u == ResolveUpdated(recent_updated, 1, d, cu, {}, skip)
        p == IF u.raised THEN [cands |-> cp, skip |-> u.skip, raised |-> TRUE]
             ELSE ResolvePublished(recent_published, 1, d, cp, u.titles, u.skip)
    IN  [candidate_updated |-> u.cands,
         candidate_published |-> p.cands,
         skipped |-> p.skip,
         raised |-> p.raised]

-----------------------------------------------------------------------------
(* list.sort(key=..., reverse=True): stable, latest first                   *)

\* an unstable sort: x goes ahead of the elements with the same key
RECURSIVE InsertDescAhead(_, _, _)
InsertDescAhead(s, x, key) ==
    IF s = <<>> THEN <<x>>
    ELSE IF Head(s)[key] > x[key]
         THEN <<Head(s)>> \o InsertDescAhead(Tail(s), x, key)
         ELSE <<x>> \o s

\* s is sorted; x goes behind every element whose key is not smaller
RECURSIVE InsertDesc(_, _, _)
InsertDesc(s, x, key) ==
    IF s = <<>> THEN <<x>>
    ELSE IF Head(s)[key] >= x[key]
         THEN <<Head(s)>> \o InsertDesc(Tail(s), x, key)
         ELSE <<x>> \o s

RECURSIVE SortDesc(_, _)
SortDesc(s, key) ==
    IF s = <<>> THEN <<>>
    ELSE InsertDesc(SortDesc(SubSeq(s, 1, Len(s) - 1), key), s[Len(s)], key)

\* s[:n + 1] for s[:n]
PrefixOffByOne(s, n) == SubSeq(s, 1, IF Len(s) < n + 1 THEN Len(s) ELSE n + 1)

\* s[:n]
Prefix(s, n) == SubSeq(s, 1, IF Len(s) < n THEN Len(s) ELSE n)

-----------------------------------------------------------------------------
(* downloaded[info["pdf_url"]] = info["version"]                            *)

SetItemRaises(d) == d.kind # "dict"

\* downloaded[info["pdf_url"]] = 1: a mark instead of the version
SetItemMark(d, pdf_url, version) ==
    Dict([u \in (DOMAIN d.map) \cup {pdf_url} |->
              IF u = pdf_url THEN 1 ELSE d.map[u]],
         d.bad \ {pdf_url})

\* downloaded = {info["pdf_url"]: info["version"]}: the other keys are lost
SetItemFresh(d, pdf_url, version) == Dict(pdf_url :> version, {})

SetItem(d, pdf_url, version) ==
    Dict([u \in (DOMAIN d.map) \cup {pdf_url} |->
              IF u = pdf_url THEN version ELSE d.map[u]],
         d.bad \ {pdf_url})

RECURSIVE CommitAll(_, _)
CommitAll(d, infos) ==
    IF infos = <<>> THEN d
    ELSE CommitAll(SetItem(d, Head(infos).pdf_url, Head(infos).version), Tail(infos))

UrlsOf(infos) == { infos[i].pdf_url : i \in 1..Len(infos) }

TitlesOf(infos) == { infos[i].title : i \in 1..Len(infos) }

-----------------------------------------------------------------------------
(* State file contents a first run may find *)

InitFiles ==
    { Value("missing", EmptyMap, {}, {}),
      Value("garbage", EmptyMap, {}, {}),
      Value("list", EmptyMap, {}, {}),
      Value("number", EmptyMap, {}, {}),
      Dict((<<"a", "v", "2">> :> 1) @@ (<<"d", "v", "1", "0">> :> 12),
           {<<"b", "v", "1">>}) }

\* a JSON object mapping strings to integers
WellFormed(f) == f.kind = "dict" /\ f.bad = {}

Init ==
    /\ file \in InitFiles
    /\ now = Days
    /\ pc = "idle"
    /\ cat = 1
    /\ downloaded = EmptyDict
    /\ skipped = FALSE
    /\ outcome = [c \in 1..NumCategories |-> "pending"]
    /\ candidate_updated = <<>>
    /\ candidate_published = <<>>
    /\ all_papers_by_updated = <<>>
    /\ all_papers_by_published = <<>>
    /\ new_count = 0
    /\ printed = <<>>
    /\ mail = "pending"
    /\ emailed = {}

-----------------------------------------------------------------------------
(* main *)

\* lines 276-290: a run starts (the first, or the next after one that ended)
StartRun ==
    /\ pc \in {"idle", "done", "crashed", "killed"}
    /\ \E t \in now..MaxNow : now' = t
    /\ downloaded' = load_downloaded_papers(file)
    /\ candidate_updated' = <<>>
    /\ candidate_published' = <<>>
    /\ new_count' = 0
    /\ skipped' = FALSE
    /\ outcome' = [c \in 1..NumCategories |-> "pending"]
    /\ all_papers_by_updated' = <<>>
    /\ all_papers_by_published' = <<>>
    /\ printed' = <<>>
    /\ mail' = "pending"
    /\ emailed' = {}
    /\ cat' = 1
    /\ pc' = "loop"
    /\ UNCHANGED file

\* the loop goes on to the next category, or ends
NextCategory ==
    /\ cat' = cat + 1
    /\ pc' = IF cat = NumCategories THEN "select" ELSE "loop"

\* the loop body recording each candidate in `downloaded` as it is found
SearchCategoryRecording ==
    /\ pc = "loop"
    /\ \E ps \in SearchResults :
         LET r == ResolveCategory(ps, downloaded, candidate_updated,
                                  candidate_published, skipped, now, now)
         IN  /\ candidate_updated' = r.candidate_updated
             /\ candidate_published' = r.candidate_published
             /\ skipped' = r.skipped
             /\ outcome' = [outcome EXCEPT ![cat] =
                               IF r.raised THEN "type_error"
                               ELSE IF ps = <<>> THEN "empty" ELSE "results"]
             /\ downloaded' = IF SetItemRaises(downloaded) THEN downloaded
                              ELSE CommitAll(downloaded,
                                             r.candidate_updated \o r.candidate_published)
    /\ NextCategory
    /\ UNCHANGED <<file, now, all_papers_by_updated, all_papers_by_published,
                   new_count, printed, mail, emailed>>

\* lines 293-316: the search of category `cat` returns, its results are
\* filtered and resolved (a TypeError inside is caught at line 317)
SearchCategory ==
    /\ pc = "loop"
    /\ \E ps \in SearchResults :
         LET r == ResolveCategory(ps, downloaded, candidate_updated,
                                  candidate_published, skipped, now, now)
         IN  /\ candidate_updated' = r.candidate_updated
             /\ candidate_published' = r.candidate_published
             /\ skipped' = r.skipped
             /\ outcome' = [outcome EXCEPT ![cat] =
                               IF r.raised THEN "type_error"
                               ELSE IF ps = <<>> THEN "empty" ELSE "results"]
    /\ NextCategory
    /\ UNCHANGED <<file, now, downloaded, all_papers_by_updated, all_papers_by_published,
                   new_count, printed, mail, emailed>>

\* search_papers raises and nothing catches it: the run ends there
SearchRaisesUncaught ==
    /\ pc = "loop"
    /\ outcome' = [outcome EXCEPT ![cat] = "search_error"]
    /\ pc' = "crashed"
    /\ UNCHANGED <<file, now, cat, downloaded, skipped, candidate_updated,
                   candidate_published, all_papers_by_updated, all_papers_by_published,
                   new_count, printed, mail, emailed>>

\* lines 295, 317-318: search_papers raises, the except branch reports it
SearchRaises ==
    /\ pc = "loop"
    /\ outcome' = [outcome EXCEPT ![cat] = "search_error"]
    /\ NextCategory
    /\ UNCHANGED <<file, now, downloaded, skipped, candidate_updated, candidate_published,
                   all_papers_by_updated, all_papers_by_published, new_count, printed,
                   mail, emailed>>

\* lines 320-324: sort both candidate lists and cut them
Select ==
    /\ pc = "select"
    /\ candidate_updated' = SortDesc(candidate_updated, "updated")
    /\ candidate_published' = SortDesc(candidate_published, "published")
    /\ all_papers_by_updated' = Prefix(candidate_updated', Cap)
    /\ all_papers_by_published' = Prefix(candidate_published', Cap)
    /\ pc' = "commit"
    /\ UNCHANGED <<file, now, cat, downloaded, skipped, outcome, new_count, printed,
                   mail, emailed>>

\* lines 326-328: record the selection; item assignment on a value that is
\* not a dict raises TypeError, which nothing catches
Commit ==
    /\ pc = "commit"
    /\ LET selection == all_papers_by_updated \o all_papers_by_published
       IN  IF selection # <<>> /\ SetItemRaises(downloaded)
           THEN /\ pc' = "crashed"
                /\ UNCHANGED <<downloaded, new_count>>
           ELSE /\ downloaded' = CommitAll(downloaded, selection)
                /\ new_count' = new_count + Len(selection)
                /\ pc' = "save"
    /\ UNCHANGED <<file, now, cat, skipped, outcome, candidate_updated, candidate_published,
                   all_papers_by_updated, all_papers_by_published, printed, mail, emailed>>

\* line 330 left out: the run goes on to the digest without writing the file
SaveSkipped ==
    /\ pc = "save"
    /\ pc' = "print"
    /\ UNCHANGED <<file, now, cat, downloaded, skipped, outcome, candidate_updated,
                   candidate_published, all_papers_by_updated, all_papers_by_published,
                   new_count, printed, mail, emailed>>

\* line 330 writing only the records of this run instead of the whole map
SaveOnlyNew ==
    /\ pc = "save"
    /\ file' = save_downloaded_papers(
                    CommitAll(EmptyDict, all_papers_by_updated \o all_papers_by_published))
    /\ pc' = "print"
    /\ UNCHANGED <<now, cat, downloaded, skipped, outcome, candidate_updated,
                   candidate_published, all_papers_by_updated, all_papers_by_published,
                   new_count, printed, mail, emailed>>

\* line 48 opening the file with "a" for "w": the dump lands behind the old
\* content, which json.load cannot parse any more
SaveAppend ==
    /\ pc = "save"
    /\ file' = IF file.kind = "missing" THEN save_downloaded_papers(downloaded)
               ELSE Value("garbage", EmptyMap, {}, {})
    /\ pc' = "print"
    /\ UNCHANGED <<now, cat, downloaded, skipped, outcome, candidate_updated,
                   candidate_published, all_papers_by_updated, all_papers_by_published,
                   new_count, printed, mail, emailed>>

\* line 330
Save ==
    /\ pc = "save"
    /\ file' = save_downloaded_papers(downloaded)
    /\ pc' = "print"
    /\ UNCHANGED <<now, cat, downloaded, skipped, outcome, candidate_updated,
                   candidate_published, all_papers_by_updated, all_papers_by_published,
                   new_count, printed, mail, emailed>>

\* print_papers: at most two papers of the list it is given
print_papers(infos) == [i \in 1..(IF Len(infos) < 2 THEN Len(infos) ELSE 2) |->
                            infos[i].pdf_url]

\* lines 335-339: both lists go to the console
PrintDigest ==
    /\ pc = "print"
    /\ printed' = print_papers(all_papers_by_updated)
                    \o print_papers(all_papers_by_published)
    /\ pc' = "email"
    /\ UNCHANGED <<file, now, cat, downloaded, skipped, outcome, candidate_updated,
                   candidate_published, all_papers_by_updated, all_papers_by_published,
                   new_count, mail, emailed>>

\* format_papers_for_email: the papers the body lists
format_papers_for_email(updated_papers, published_papers) ==
    UrlsOf(updated_papers) \cup UrlsOf(published_papers)

\* lines 341-350 and send_email_via_qq: RECIPIENT_EMAIL, the two QQ_
\* variables and the SMTP session are the environment's
Email ==
    /\ pc = "email"
    /\ \E recipient \in BOOLEAN, credentials \in BOOLEAN, smtp_ok \in BOOLEAN :
          IF ~recipient
          THEN mail' = "not_called" /\ emailed' = emailed
          ELSE IF ~credentials \/ ~smtp_ok
          THEN mail' = "returned_false" /\ emailed' = emailed
          ELSE /\ mail' = "sent"
               /\ emailed' = format_papers_for_email(all_papers_by_updated,
                                                      all_papers_by_published)
    /\ pc' = "done"
    /\ UNCHANGED <<file, now, cat, downloaded, skipped, outcome, candidate_updated,
                   candidate_published, all_papers_by_updated, all_papers_by_published,
                   new_count, printed>>

\* the process dies between two statements of main (killed, or an I/O error
\* nothing catches, such as open() failing in save_downloaded_papers): its
\* memory is gone, the file and what was printed and sent stay
Kill ==
    /\ pc \in {"loop", "select", "commit", "save", "print", "email"}
    /\ pc' = "killed"
    /\ cat' = 1
    /\ downloaded' = EmptyDict
    /\ skipped' = FALSE
    /\ outcome' = [c \in 1..NumCategories |-> "pending"]
    /\ candidate_updated' = <<>>
    /\ candidate_published' = <<>>
    /\ all_papers_by_updated' = <<>>
    /\ all_papers_by_published' = <<>>
    /\ new_count' = 0
    /\ UNCHANGED <<file, now, printed, mail, emailed>>

Next ==
    \/ StartRun
    \/ SearchCategory
    \/ SearchRaises
    \/ Select
    \/ Commit
    \/ Save
    \/ PrintDigest
    \/ Email
    \/ Kill

Spec == Init /\ [][Next]_vars

-----------------------------------------------------------------------------
(* Properties *)

\* the final selection of the run
Selection == all_papers_by_updated \o all_papers_by_published

\* the state file is as the run loaded it (save has not run yet)
BeforeSave == pc \in {"loop", "select", "commit", "save"}

\* the selection has been made
AfterSelect == pc \in {"commit", "save", "print", "email", "done"}

\* every entry of the file is one a commit of main writes
ProgramWritten(f) ==
    /\ WellFormed(f)
    /\ \A u \in DOMAIN f.map : f.map[u] = get_version_from_pdf_url(u)

\* C1: an identifier the state file records with version v is never a
\* candidate of a run that finds it presented with version v or lower, and
\* the novelty check accepts it with version v + 1.
NoveltyMonotone ==
    (BeforeSave /\ file.kind = "dict") =>
        /\ \A c \in Range(candidate_updated) \cup Range(candidate_published) :
              c.pdf_url \in DOMAIN file.map => c.version > file.map[c.pdf_url]
        /\ \A u \in DOMAIN file.map :
              /\ is_new_version(u, file.map[u] + 1, load_downloaded_papers(file))
              /\ \A v \in 1..file.map[u] :
                    ~is_new_version(u, v, load_downloaded_papers(file))

\* a later run was presented an identifier an earlier commit recorded, inside
\* the window, and has refused it
NoveltyMonotoneWitness ==
    /\ pc = "select"
    /\ ProgramWritten(file)
    /\ file.map # EmptyMap
    /\ skipped
    /\ candidate_updated = <<>>
    /\ candidate_published = <<>>

\* C2: no paper occurs twice in the final selection of a run.
ReportedOnce ==
    AfterSelect =>
        \A i, j \in 1..Len(Selection) :
            Selection[i].pdf_url = Selection[j].pdf_url => i = j

\* C3: after the loop over both categories no title is in both candidate
\* lists.
CandidatesDisjoint ==
    pc = "select" =>
        TitlesOf(candidate_updated) \cap TitlesOf(candidate_published) = {}

\* C4: a paper the run has recorded in the state file (which suppresses it
\* in every later run) is in a digest the run has delivered by email.
AtLeastOnceDelivery ==
    (pc = "done" /\ file.kind = "dict") =>
        \A u \in UrlsOf(Selection) : u \in DOMAIN file.map => u \in emailed

\* C5: a run in which both searches return no results sends no email.
NoEmailOnEmptyRun ==
    (pc = "done" /\ \A c \in 1..NumCategories : outcome[c] = "empty") =>
        mail # "sent"

\* C6: whatever the state file holds that is not an object of integer
\* versions, the load yields the empty map and the run does not end in an
\* error.
PermissiveLoad ==
    /\ (pc = "loop" /\ cat = 1 /\ ~WellFormed(file)) => downloaded = EmptyDict
    /\ pc # "crashed"

\* C7: a candidate the cap has cut off is not written by the commit of the
\* run: it still passes the novelty check against the committed map.
TruncatedStayEligible ==
    (pc \in {"save", "print", "email", "done"} /\ downloaded.kind = "dict") =>
        /\ \A i \in (Cap + 1)..Len(candidate_updated) :
              is_new_version(candidate_updated[i].pdf_url,
                             candidate_updated[i].version, downloaded)
        /\ \A i \in (Cap + 1)..Len(candidate_published) :
              is_new_version(candidate_published[i].pdf_url,
                             candidate_published[i].version, downloaded)

\* the keys of a dict value
Keys(d) == (DOMAIN d.map) \cup d.bad

\* no entry of d is missing from e and no version of d is lower in e
Grown(d, e) ==
    /\ e.kind = "dict"
    /\ Keys(d) \subseteq Keys(e)
    /\ \A u \in DOMAIN d.map : u \in DOMAIN e.map /\ e.map[u] >= d.map[u]

\* C8: no step removes an entry of the version map or lowers a stored
\* version, in the file and in memory.
MonotoneVersionState ==
    [][/\ file.kind = "dict" => Grown(file, file')
       /\ (pc = "commit" /\ pc' = "save" /\ downloaded.kind = "dict") =>
              Grown(downloaded, downloaded')
      ]_vars

\* the entry of a.v.2 was overwritten with the later version, next to an
\* entry that was left alone
MonotoneVersionStateWitness ==
    /\ file.kind = "dict"
    /\ <<"a", "v", "2">> \in DOMAIN file.map
    /\ <<"d", "v", "1", "0">> \in DOMAIN file.map
    /\ file.map[<<"a", "v", "2">>] = 2
    /\ file.map[<<"d", "v", "1", "0">>] = 12
    /\ Cardinality(DOMAIN file.map) > 2

\* C9: a search that raises leaves the candidates as they were and the loop
\* goes on to the next category, or to the selection after the last.
SearchFailureIsolated ==
    [][(pc = "loop" /\ outcome'[cat] = "search_error") =>
          /\ candidate_updated' = candidate_updated
          /\ candidate_published' = candidate_published
          /\ downloaded' = downloaded
          /\ cat' = cat + 1
          /\ pc' = IF cat = NumCategories THEN "select" ELSE "loop"
      ]_vars

\* the first search raised, the second category's papers were selected,
\* committed and saved
SearchFailureIsolatedWitness ==
    /\ pc = "print"
    /\ outcome[1] = "search_error"
    /\ outcome[2] = "results"
    /\ Selection # <<>>
    /\ file.kind = "dict"
    /\ UrlsOf(Selection) \subseteq DOMAIN file.map

\* C10: each selected list holds at most Cap records, exactly Cap when its
\* candidate list has that many, and a commit adds at most 2 * Cap entries.
SelectionCap ==
    /\ AfterSelect =>
          /\ Len(all_papers_by_updated) <= Cap
          /\ Len(all_papers_by_published) <= Cap
          /\ Len(candidate_updated) >= Cap => Len(all_papers_by_updated) = Cap
          /\ Len(candidate_published) >= Cap => Len(all_papers_by_published) = Cap
    /\ (pc = "save" /\ downloaded.kind = "dict") =>
          Cardinality(Keys(downloaded))
              <= Cardinality(Keys(load_downloaded_papers(file))) + 2 * Cap

\* three publish candidates, two of them selected and committed
SelectionCapWitness ==
    /\ pc = "save"
    /\ Len(candidate_published) > Cap
    /\ Len(all_papers_by_published) = Cap
    /\ Cardinality(Keys(downloaded))
          = Cardinality(Keys(load_downloaded_papers(file))) + Cap

\* C11: a paper that has been printed or emailed is recorded in the state
\* file with its version, in every state, also one a dying process leaves.
StoreNotOlderThanReport ==
    \A u \in Range(printed) \cup emailed :
        /\ file.kind = "dict"
        /\ u \in DOMAIN file.map
        /\ file.map[u] = get_version_from_pdf_url(u)

\* the process died after the digest was printed, before the email step
StoreNotOlderThanReportWitness ==
    /\ pc = "killed"
    /\ printed # <<>>
    /\ mail = "pending"
    /\ Range(printed) \subseteq DOMAIN file.map

\* both searches of the run returned an empty list
EmptyRun == \A c \in 1..NumCategories : outcome[c] = "empty"

\* the file f holds the value d
Holds(f, d) ==
    /\ f.kind = d.kind
    /\ f.map = d.map
    /\ f.bad = d.bad
    /\ f.items = d.items

\* C12: in a run whose searches both return nothing, the map in memory stays
\* the loaded one through the commit, and save writes that map.
EmptyRunKeepsState ==
    [][(EmptyRun /\ pc \in {"commit", "save"}) =>
          /\ downloaded = load_downloaded_papers(file)
          /\ pc' = "save" => downloaded' = downloaded
          /\ pc' = "print" => Holds(file', load_downloaded_papers(file))
      ]_vars

\* an empty run has saved a map that has entries
EmptyRunKeepsStateWitness ==
    /\ pc = "print"
    /\ EmptyRun
    /\ file.kind = "dict"
    /\ file.map # EmptyMap

Pos(s, x) == CHOOSE i \in 1..Len(s) : s[i] = x

\* r is the list s of distinct elements restricted to the set K, in the order of s
IsRestriction(r, s, K) ==
    /\ Range(r) = Range(s) \cap K
    /\ IsInjective(r)
    /\ \A i, j \in 1..Len(r) : i < j => Pos(s, r[i]) < Pos(s, r[j])

\* the first search of a run is about to be filtered: any list the adapter
\* can return is a possible input of the two filters, at the clock of the run
FirstSearch == pc = "loop" /\ cat = 1

\* C14: filter_recent_by_published returns its input restricted, in input
\* order, to the records with published >= now - days: a record published
\* exactly at the bound is kept, one published a unit earlier is dropped; so
\* no publish candidate of a run is older than the bound.
RecencyBoundary ==
    /\ FirstSearch =>
          \A ps \in SearchResults :
              LET r == filter_recent_by_published(ps, Days, now)
              IN  /\ IsRestriction(r, ps, { p \in Index : p.published >= now - Days })
                  /\ \A p \in Range(ps) :
                        /\ p.published = now - Days => p \in Range(r)
                        /\ p.published = now - Days - 1 => p \notin Range(r)
    /\ pc \in {"loop", "select"} =>
          \A i \in 1..Len(candidate_published) :
              candidate_published[i].published >= now - Days

\* a record published exactly at the bound became a publish candidate, next
\* to a record published one unit earlier that came in as an update only
RecencyBoundaryWitness ==
    /\ pc = "select"
    /\ \E i \in 1..Len(candidate_published) :
          candidate_published[i].published = now - Days
    /\ \E i \in 1..Len(candidate_updated) :
          candidate_updated[i].published = now - Days - 1

\* version 1 and never updated after publication
NeverRevised(p) ==
    get_version_from_pdf_url(p.pdf_url) = 1 /\ p.published = p.updated

\* C18: filter_recent_by_updated returns its input restricted, in input order,
\* to the records with updated >= now - days and version >= min_version; a
\* never-revised record inside the window passes filter_recent_by_published
\* and fails filter_recent_by_updated for every min_version above 1.
UpdatedFilterExact ==
    /\ FirstSearch =>
          \A ps \in SearchResults : \A mv \in 1..MaxMinVersion :
              LET r == filter_recent_by_updated(ps, Days, mv, now)
              IN  /\ IsRestriction(r, ps,
                         { p \in Index : /\ p.updated >= now - Days
                                         /\ get_version_from_pdf_url(p.pdf_url) >= mv })
                  /\ \A p \in Range(ps) :
                        (NeverRevised(p) /\ p.published >= now - Days) =>
                            /\ p \in Range(filter_recent_by_published(ps, Days, now))
                            /\ mv > 1 => p \notin Range(r)
    /\ pc \in {"loop", "select"} =>
          \A i \in 1..Len(candidate_updated) :
              /\ candidate_updated[i].updated >= now - Days
              /\ candidate_updated[i].version >= MinVersion

\* a never-revised record is a publish candidate of a run that has update
\* candidates, and is not one of them
UpdatedFilterExactWitness ==
    /\ pc = "select"
    /\ candidate_updated # <<>>
    /\ \E i \in 1..Len(candidate_published) :
          /\ candidate_published[i].version = 1
          /\ candidate_published[i].published = candidate_published[i].updated
          /\ candidate_published[i].pdf_url \notin UrlsOf(candidate_updated)

\* C15: a commit step that completes leaves every selected record's version
\* under its pdf_url and every other entry as it was, and the save step
\* writes this map to the file.
CommitPostcondition ==
    [][/\ (pc = "commit" /\ pc' = "save" /\ Selection # <<>>) =>
             /\ downloaded'.kind = "dict"
             /\ \A i \in 1..Len(Selection) :
                   /\ Selection[i].pdf_url \in DOMAIN downloaded'.map
                   /\ downloaded'.map[Selection[i].pdf_url] = Selection[i].version
             /\ Keys(downloaded') = Keys(downloaded) \cup UrlsOf(Selection)
             /\ \A u \in Keys(downloaded) \ UrlsOf(Selection) :
                   IF u \in downloaded.bad
                   THEN u \in downloaded'.bad
                   ELSE /\ u \in DOMAIN downloaded'.map
                        /\ downloaded'.map[u] = downloaded.map[u]
       /\ (pc = "commit" /\ pc' = "save" /\ Selection = <<>>) =>
             downloaded' = downloaded
       /\ (pc = "save" /\ pc' = "print") =>
             /\ Holds(file', downloaded)
             /\ downloaded' = downloaded
      ]_vars

\* version 1 was stored for a.v.2, the search returned it (version 2), it was
\* selected as an update and the commit stored 2, next to an entry it kept
CommitPostconditionWitness ==
    /\ pc = "save"
    /\ file.kind = "dict"
    /\ <<"a", "v", "2">> \in DOMAIN file.map
    /\ file.map[<<"a", "v", "2">>] = 1
    /\ <<"a", "v", "2">> \in UrlsOf(all_papers_by_updated)
    /\ downloaded.map[<<"a", "v", "2">>] = 2
    /\ Keys(downloaded) \ UrlsOf(Selection) # {}

\* C16: from the load to the end of the sort and cut, `downloaded` is the
\* value that was loaded from the file: no step of the category loop and not
\* the selection writes it; the only steps of a run that change it are the
\* load and the commit (a process that dies loses it).
ResolutionReadOnly ==
    [][/\ pc \in {"loop", "select", "commit"} =>
             downloaded = load_downloaded_papers(file)
       /\ (pc \in {"loop", "select"} /\ pc' # "killed") =>
             downloaded' = downloaded
       /\ downloaded' # downloaded =>
             \/ pc = "commit" /\ pc' = "save"
             \/ pc' = "loop" /\ cat' = 1
             \/ pc' = "killed"
      ]_vars

\* both categories were resolved against a loaded map that has entries: the
\* second one took as new a record the first one had already taken
ResolutionReadOnlyWitness ==
    /\ pc = "select"
    /\ \A c \in 1..NumCategories : outcome[c] = "results"
    /\ downloaded.kind = "dict"
    /\ downloaded.map # EmptyMap
    /\ \E i, j \in 1..Len(candidate_updated) :
          i < j /\ candidate_updated[i] = candidate_updated[j]

\* the place of s[i] when s is ordered by key, largest first, equal keys in
\* the order of s
Rank(s, i, key) ==
    1 + Cardinality({ j \in 1..Len(s) : s[j][key] > s[i][key] })
      + Cardinality({ j \in 1..(i - 1) : s[j][key] = s[i][key] })

IsRanked(r, s, key) ==
    /\ Len(r) = Len(s)
    /\ \A i \in 1..Len(s) : r[Rank(s, i, key)] = s[i]

\* sel is the first n elements of r (all of r when it is shorter)
IsFirst(sel, r, n) ==
    /\ Len(sel) = IF Len(r) < n THEN Len(r) ELSE n
    /\ \A i \in 1..Len(sel) : sel[i] = r[i]

\* C17: the selected updates are the first 2 update candidates in the order
\* updated descending, the selected publishes the first 2 publish candidates
\* in the order published descending; candidates with the same timestamp stay
\* in the order in which the loop appended them.
Ranking ==
    [][(pc = "select" /\ pc' = "commit") =>
          /\ IsRanked(candidate_updated', candidate_updated, "updated")
          /\ IsRanked(candidate_published', candidate_published, "published")
          /\ IsFirst(all_papers_by_updated', candidate_updated', Cap)
          /\ IsFirst(all_papers_by_published', candidate_published', Cap)
      ]_vars

\* two distinct update candidates with the same updated time were selected
\* ahead of an older third one
RankingWitness ==
    /\ pc = "commit"
    /\ Len(candidate_updated) > Cap
    /\ Len(all_papers_by_updated) = Cap
    /\ all_papers_by_updated[1].updated = all_papers_by_updated[2].updated
    /\ all_papers_by_updated[1].pdf_url # all_papers_by_updated[2].pdf_url
    /\ candidate_updated[Cap + 1].updated < all_papers_by_updated[2].updated

\* C19: when the state file is absent, unparsable or written by commits only,
\* every entry of the map is the version its own key carries; so for a record
\* of get_paper_info the comparison current_version > stored is never true
\* and is_new_version is true exactly when the pdf_url is not in the map.
VersionIsOwn ==
    (file.kind \in {"missing", "garbage"} \/ ProgramWritten(file)) =>
        /\ ProgramWritten(downloaded)
        /\ \A p \in Index :
              LET info == get_paper_info(p)
              IN  /\ ~is_new_version_raises(info.pdf_url, info.version, downloaded)
                  /\ Contains(downloaded, info.pdf_url) =>
                        ~(info.version > downloaded.map[info.pdf_url])
                  /\ is_new_version(info.pdf_url, info.version, downloaded)
                        <=> ~Contains(downloaded, info.pdf_url)

\* a run on a map of earlier commits that holds a revision above 1 has
\* refused a recorded identifier and taken an absent one
VersionIsOwnWitness ==
    /\ pc = "select"
    /\ ProgramWritten(file)
    /\ \E u \in DOMAIN downloaded.map : downloaded.map[u] > 1
    /\ skipped
    /\ \E c \in Range(candidate_updated) \cup Range(candidate_published) :
          ~Contains(downloaded, c.pdf_url)

\* the record is in the state file with its version
Recorded(info) ==
    /\ file.kind = "dict"
    /\ info.pdf_url \in DOMAIN file.map
    /\ file.map[info.pdf_url] = info.version

\* C20: a run that has ended leaves, for each candidate list that was not
\* empty, at least one of its candidates recorded in the state file (so the
\* backlog of a search that returns the same results shrinks with every run).
BacklogDrains ==
    pc \in {"done", "crashed"} =>
        /\ candidate_updated # <<>> =>
              \E i \in 1..Len(candidate_updated) : Recorded(candidate_updated[i])
        /\ candidate_published # <<>> =>
              \E i \in 1..Len(candidate_published) : Recorded(candidate_published[i])

====
